---------------------------- MODULE Spec2Model ----------------------------
(***************************************************************************)
(* A model of GRUB's UDF filesystem driver, grub-core/fs/udf.c.            *)
(*                                                                         *)
(* The disk is the environment: a grub_disk_read returns either a failure  *)
(* or bytes drawn from a bounded set of descriptor contents.  A sector     *)
(* that the code reads twice returns the same bytes both times.            *)
(*                                                                         *)
(* SpecMount models grub_udf_mount, one action per loop iteration.         *)
(* SpecBlock models grub_udf_read_block on a mounted volume, one action    *)
(* per step of its descriptor loop; SpecBlockFair adds that the function   *)
(* keeps running until it returns.  SpecDir models grub_udf_iterate_dir,   *)
(* one action per directory entry, and the return of grub_udf_dir.         *)
(* SpecLink models grub_udf_read_symlink, one action per path component;   *)
(* a byte read outside what was stored in raw can have any value.          *)
(* SpecUuid models gen_uuid_from_volset.  SpecFs models sequences of the   *)
(* top-level calls with the memory they allocate and free and the module   *)
(* reference count.                                                        *)
(***************************************************************************)
EXTENDS Integers, Sequences, FiniteSets, TLC

(***************************************************************************)
(* Constants of grub/udf.h and grub/disk.h.                                *)
(***************************************************************************)
GRUB_DISK_SECTOR_BITS == 9
GRUB_UDF_MAX_PDS == 2
GRUB_UDF_MAX_PMS == 6
GRUB_UDF_TAG_IDENT_PVD == 1
GRUB_UDF_TAG_IDENT_AVDP == 2
GRUB_UDF_TAG_IDENT_PD == 5
GRUB_UDF_TAG_IDENT_LVD == 6
GRUB_UDF_TAG_IDENT_TD == 8
GRUB_UDF_TAG_IDENT_FSD == 256
GRUB_UDF_PARTMAP_TYPE_1 == 1
GRUB_UDF_TAG_IDENT_AED == 258
GRUB_UDF_TAG_IDENT_FE == 261
GRUB_UDF_TAG_IDENT_EFE == 266
GRUB_UDF_ICBTAG_FLAG_AD_MASK == 7
GRUB_UDF_ICBTAG_FLAG_AD_SHORT == 0
GRUB_UDF_ICBTAG_FLAG_AD_LONG == 1
GRUB_UDF_ICBTAG_FLAG_AD_EXT == 2
GRUB_UDF_ICBTAG_FLAG_AD_IN_ICB == 3
GRUB_UDF_TAG_IDENT_FID == 257
GRUB_UDF_FID_CHAR_DIRECTORY == 2
GRUB_UDF_FID_CHAR_DELETED == 4
GRUB_UDF_FID_CHAR_PARENT == 8
\* GRUB_UDF_EXT_MASK, 0x40000000, as a mask on the high 16 bits.
GRUB_UDF_EXT_MASK_HI == 16384

(***************************************************************************)
(* Bounds of the model.                                                    *)
(***************************************************************************)
\* Descriptors the volume descriptor sequence holds before the disk ends.
MaxVds == 4
\* Structures the volume recognition area holds before the disk ends.
MaxVrs == 2
\* Allocation descriptors a file entry holds, and the largest fileblock asked.
MaxAds == 2
MaxFileblock == 2
\* The largest directory, in bytes.
MaxDirSize == 120

Shl(x, n) == x * (2 ^ n)
Shr(x, n) == x \div (2 ^ n)

(***************************************************************************)
(* grub_uint32_t values that take part in 32-bit additions are held as two *)
(* 16-bit halves (the integers of the model checker are 32 bits, signed).  *)
(***************************************************************************)
Half == 2 ^ 16
U32Of(n) == [hi |-> n \div Half, lo |-> n % Half]
\* The value as a number, where it is below 2^31.
ToNat(x) == x.hi * Half + x.lo
\* a + b in grub_uint32_t: the carry out of bit 31 is lost.
Add32(a, b) ==
  LET lo == a.lo + b.lo
      hi == a.hi + b.hi + (lo \div Half)
  IN  [hi |-> hi % Half, lo |-> lo % Half]

ERR_NOT_UDF == "not an UDF filesystem"

VARIABLES
  pc,        \* position of grub_udf_mount
  lbshift,   \* local lbshift
  sbi,       \* index of sblklist into sblocklist (1-based)
  block,     \* local block
  vblock,    \* local vblock
  d_lbshift, \* data->lbshift
  pds,       \* data->pds[0 .. npd-1]
  pms,       \* data->pms[0 .. npm-1]: pointers into data->lvd.part_maps
  lvd,       \* data->lvd
  root_icb,  \* data->root_icb
  fi,        \* local i of the fixup loop
  err,       \* grub_errno's message, "" when none
  rd,        \* the last grub_disk_read of mount: sector, and what it was for
  probeLog,  \* the AVDP reads of the probe loop, in order
  vrsReads,  \* number of VRS structures read
  vdsReads,  \* number of VDS loop iterations
  nsrSeen,   \* an NSR02/NSR03 structure was read
  tdSeen,    \* the Terminator Descriptor was read
  badSeen,   \* the VDS loop met an unreadable block or a tag ident > TD
  pmOrig     \* on-disk part_num of each pms entry, as read with its LVD

mountVars == <<pc, lbshift, sbi, block, vblock, d_lbshift, pds, pms, lvd,
               root_icb, fi, err, rd, probeLog, vrsReads, vdsReads, nsrSeen,
               tdSeen, badSeen, pmOrig>>

VARIABLES
  vd,        \* the struct grub_udf_data that node->data points to
  node,      \* the struct grub_fshelp_node given to grub_udf_read_block
  fileblock, \* the argument fileblock
  rb_pc,     \* position of grub_udf_read_block
  len,       \* local len
  ad,        \* local ad, as a 1-based index into adlist
  adlist,    \* the descriptors that ad walks: the node's, or those in buf
  filebytes, \* local filebytes
  buf,       \* local buf is allocated
  sec,       \* local sec
  ret,       \* the value returned
  rb_err,    \* grub_errno's message after the call, "" when none
  aedDisk,   \* the extent blocks read so far: <<block, content>>
  sawAed     \* a continuation descriptor was followed

blockVars == <<vd, node, fileblock, rb_pc, len, ad, adlist, filebytes, buf,
               sec, ret, rb_err, aedDisk, sawAed>>

VARIABLES
  dir,       \* the directory's file entry: icbtag.flags and file_size
  d_pc,      \* position of grub_udf_dir / grub_udf_iterate_dir
  offset,    \* local offset of grub_udf_iterate_dir
  d_ret,     \* the value grub_udf_iterate_dir returns
  d_err,     \* grub_errno's message, "" when none
  dir_ret,   \* the value grub_udf_dir returns
  hooks,     \* the hook calls made so far: name and type, in order
  fidLog,    \* the file identifier descriptors met so far, with their offset
  iters,     \* loop iterations started
  stopped,   \* the hook has returned non-zero
  failHooks  \* number of hook calls made when a step first failed, or -1

dirVars == <<dir, d_pc, offset, d_ret, d_err, dir_ret, hooks, fidLog, iters,
             stopped, failHooks>>

VARIABLES
  sl_node,   \* the symlink's file entry: icbtag.flags and the file's bytes
  sl_pc,     \* position of grub_udf_read_symlink
  sl_sz,     \* local sz
  sl_got,    \* number of bytes grub_udf_read_file stored in raw
  sl_ptr,    \* ptr - raw
  sl_out,    \* out[0 .. optr - out - 1]
  sl_ret,    \* the value returned: "NULL" or "out"
  sl_err,    \* grub_errno's message, "" when none
  sl_heap,   \* which of raw and out are allocated
  sl_nomem,  \* an allocation has failed
  sl_maxread \* 1 + the highest index of raw that was read, 0 when none

linkVars == <<sl_node, sl_pc, sl_sz, sl_got, sl_ptr, sl_out, sl_ret, sl_err,
              sl_heap, sl_nomem, sl_maxread>>

VARIABLES
  volset_ident, \* the argument of gen_uuid_from_volset, without its NUL
  u_pc,         \* position of gen_uuid_from_volset
  u_len,        \* local len
  u_buf,        \* local buf[0 .. 15]
  nonhexpos,    \* local nonhexpos
  uuid,         \* uuid[0 .. 15] as written
  u_ret         \* the value returned: "NULL" or "uuid"

uuidVars == <<volset_ident, u_pc, u_len, u_buf, nonhexpos, uuid, u_ret>>

VARIABLES
  fs_pc,      \* the top-level call in progress and its position, or "idle"
  my_mod,     \* grub_dl_ref calls minus grub_dl_unref calls on my_mod
  opened,     \* the files that grub_udf_open returned 0 for, not yet closed
  heap,       \* the allocations: live, freed with the pointer still held,
              \* and whether a freed one was read or freed again
  found_root, \* foundnode == rootnode
  fs_n,       \* loop iterations of grub_udf_iterate_dir in this call
  g_last_fileattr_offset \* "unset", "child" or "stale"

fsVars == <<fs_pc, my_mod, opened, heap, found_root, fs_n,
            g_last_fileattr_offset>>

vars == <<mountVars, blockVars, dirVars, linkVars, uuidVars, fsVars>>

\* The variables of the calls that an action of one call leaves alone.
notMountVars == <<blockVars, dirVars, linkVars, uuidVars, fsVars>>
notBlockVars == <<mountVars, dirVars, linkVars, uuidVars, fsVars>>
notDirVars == <<mountVars, blockVars, linkVars, uuidVars, fsVars>>
notLinkVars == <<mountVars, blockVars, dirVars, uuidVars, fsVars>>
notUuidVars == <<mountVars, blockVars, dirVars, linkVars, fsVars>>
notFsVars == <<mountVars, blockVars, dirVars, linkVars, uuidVars>>

(***************************************************************************)
(* Disk contents.                                                          *)
(***************************************************************************)
sblocklist == <<256, 512, 0>>

VdsStarts == {0, 32}


AvdpContents ==
  {[ok |-> FALSE, tag_ident |-> 0, tag_location |-> 0, vds_start |-> 0]}
  \cup [ok : {TRUE}, tag_ident : {GRUB_UDF_TAG_IDENT_AVDP},
        tag_location : {256, 512}, vds_start : VdsStarts]
  \cup {[ok |-> TRUE, tag_ident |-> 0, tag_location |-> 256, vds_start |-> 32]}

Magics == {"NSR02", "NSR03", "BEA01", "BOOT2", "CD001", "CDW02", "TEA01",
           "XXXXX"}

VrsContents == {[ok |-> FALSE, magic |-> ""]} \cup [ok : {TRUE}, magic : Magics]


\* A type-1 partition map is 6 bytes; the model holds the first two of
\* data->lvd.part_maps, addressed by byte offset.
PartMapOffsets == {0, 6}

PartMapVals ==
  {[type |-> 1, length |-> 6, part_num |-> 0],
   [type |-> 1, length |-> 6, part_num |-> 1],
   [type |-> 1, length |-> 0, part_num |-> 1],
   [type |-> 2, length |-> 6, part_num |-> 0]}

BSizes == {2048}

NumPartMapsVals == {0, 1, 2, 7}

\* The partition map walk of an LVD stays inside the modelled part_maps bytes.
RECURSIVE WalkInside(_, _, _)
WalkInside(maps, p, k) ==
  \/ k = 0
  \/ /\ p \in DOMAIN maps
     /\ maps[p].type = GRUB_UDF_PARTMAP_TYPE_1
          => WalkInside(maps, p + maps[p].length, k - 1)

\* The offsets the partition map walk of an LVD reads.
RECURSIVE WalkReads(_, _, _)
WalkReads(maps, p, k) ==
  IF k = 0 \/ p \notin DOMAIN maps THEN {}
  ELSE IF maps[p].type # GRUB_UDF_PARTMAP_TYPE_1 THEN {p}
  ELSE {p} \cup WalkReads(maps, p + maps[p].length, k - 1)

\* The LVDs the disk may hold.  The bytes of part_maps that mount never
\* reads are the same in all of them.
LvdContents ==
  {l \in [init : {TRUE}, bsize : BSizes, num_part_maps : NumPartMapsVals,
          part_maps : [PartMapOffsets -> PartMapVals],
          root_part_ref : {0}, root_block : {U32Of(2)}] :
     LET n == IF l.num_part_maps <= GRUB_UDF_MAX_PMS THEN l.num_part_maps ELSE 0
     IN  /\ WalkInside(l.part_maps, 0, n)
         /\ \A o \in PartMapOffsets \ WalkReads(l.part_maps, 0, n) :
              l.part_maps[o] = [type |-> 1, length |-> 6, part_num |-> 0]}

\* data->lvd before any LVD was read: the bytes grub_malloc returned.
UninitLvd ==
  [init |-> FALSE, bsize |-> 0, num_part_maps |-> 0,
   part_maps |-> [o \in PartMapOffsets |-> [type |-> 0, length |-> 0, part_num |-> 0]],
   root_part_ref |-> 0, root_block |-> U32Of(0)]

PdContents == [part_num : {0, 1}, start : {U32Of(64)}]

SkippedIdents == {7}
InvalidIdents == {9}

\* What the disk holds at one block of the volume descriptor sequence: the
\* tag read may fail; the second, longer read of the same block may fail.
VdsContents ==
  {[ok |-> FALSE]}
  \cup [ok : {TRUE}, tag_ident : SkippedIdents \cup InvalidIdents
                                  \cup {GRUB_UDF_TAG_IDENT_TD}]
  \cup [ok : {TRUE}, tag_ident : {GRUB_UDF_TAG_IDENT_PVD}, full_ok : BOOLEAN]
  \cup [ok : {TRUE}, tag_ident : {GRUB_UDF_TAG_IDENT_PD}, full_ok : {FALSE}]
  \cup [ok : {TRUE}, tag_ident : {GRUB_UDF_TAG_IDENT_PD}, full_ok : {TRUE},
        pd : PdContents]
  \cup [ok : {TRUE}, tag_ident : {GRUB_UDF_TAG_IDENT_LVD}, full_ok : {FALSE}]
  \cup [ok : {TRUE}, tag_ident : {GRUB_UDF_TAG_IDENT_LVD}, full_ok : {TRUE},
        lvd : LvdContents]

RootIcbs == {[part_ref |-> 0, block_num |-> 3]}

FsdContents ==
  {[ok |-> FALSE]}
  \cup [ok : {TRUE}, tag_ident : {GRUB_UDF_TAG_IDENT_FSD, 0}, root_icb : RootIcbs]

NoIcb == [part_ref |-> 0, block_num |-> 0]

(***************************************************************************)
(* grub_udf_get_block                                                      *)
(***************************************************************************)
grub_udf_get_block(d_pms, d_pds, d_lvd, part_ref, blk) ==
  IF part_ref >= Len(d_pms)
  THEN [err |-> "invalid part ref", block |-> U32Of(0)]
  ELSE [err |-> "",
        block |-> Add32(d_pds[d_lvd.part_maps[d_pms[part_ref + 1]].part_num + 1].start,
                        blk)]

(***************************************************************************)
(* grub_udf_mount                                                          *)
(***************************************************************************)
\* No grub_udf_read_block call is in progress.
NoVolume == [lbshift |-> 0, lvd |-> UninitLvd, pds |-> <<>>, pms |-> <<>>]
NoNode == [tag_ident |-> 0, flags |-> 0, part_ref |-> 0,
           alloc_descs_length |-> 0, ads |-> <<>>]
Zero64 == [c |-> 0, hi |-> 0, lo |-> 0]

BlockIdle ==
  /\ vd = NoVolume
  /\ node = NoNode
  /\ fileblock = 0
  /\ rb_pc = "idle"
  /\ len = 0
  /\ ad = 0
  /\ adlist = <<>>
  /\ filebytes = 0
  /\ buf = FALSE
  /\ sec = U32Of(0)
  /\ ret = Zero64
  /\ rb_err = ""
  /\ aedDisk = {}
  /\ sawAed = FALSE

\* No grub_udf_dir call is in progress.
DirIdle ==
  /\ dir = [flags |-> 0, file_size |-> 0]
  /\ d_pc = "idle"
  /\ offset = 0
  /\ d_ret = 0
  /\ d_err = ""
  /\ dir_ret = ""
  /\ hooks = <<>>
  /\ fidLog = <<>>
  /\ iters = 0
  /\ stopped = FALSE
  /\ failHooks = -1

\* No grub_udf_read_symlink call is in progress.
LinkIdle ==
  /\ sl_node = [flags |-> 0, bytes |-> <<>>]
  /\ sl_pc = "idle"
  /\ sl_sz = 0
  /\ sl_got = 0
  /\ sl_ptr = 0
  /\ sl_out = <<>>
  /\ sl_ret = ""
  /\ sl_err = ""
  /\ sl_heap = {}
  /\ sl_nomem = FALSE
  /\ sl_maxread = 0

\* No gen_uuid_from_volset call is in progress.
UuidIdle ==
  /\ volset_ident = <<>>
  /\ u_pc = "idle"
  /\ u_len = 0
  /\ u_buf = <<>>
  /\ nonhexpos = 0
  /\ uuid = <<>>
  /\ u_ret = ""

\* No top-level call has been made.
FsIdle ==
  /\ fs_pc = "idle"
  /\ my_mod = 0
  /\ opened = {}
  /\ heap = [live |-> {}, dangling |-> {}, uaf |-> FALSE, dfree |-> FALSE]
  /\ found_root = FALSE
  /\ fs_n = 0
  /\ g_last_fileattr_offset = "unset"

MountInit ==
  /\ pc = "probe"
  /\ lbshift = 0
  /\ sbi = 1
  /\ block = 0
  /\ vblock = 0
  /\ d_lbshift = 0
  /\ pds = <<>>
  /\ pms = <<>>
  /\ lvd = UninitLvd
  /\ root_icb = NoIcb
  /\ fi = 0
  /\ err = ""
  /\ rd = [sector |-> 0, for |-> "none"]
  /\ probeLog = <<>>
  /\ vrsReads = 0
  /\ vdsReads = 0
  /\ nsrSeen = FALSE
  /\ tdSeen = FALSE
  /\ badSeen = FALSE
  /\ pmOrig = <<>>

\* "goto fail": grub_error (e), grub_free (data), return 0.  The locals and
\* the volume data are gone; what the last read was and the probe's reads
\* stay on record.
MountFail(e) ==
  /\ pc' = "fail"
  /\ err' = e
  /\ lbshift' = 0
  /\ sbi' = 1
  /\ block' = 0
  /\ vblock' = 0
  /\ d_lbshift' = 0
  /\ pds' = <<>>
  /\ pms' = <<>>
  /\ lvd' = UninitLvd
  /\ root_icb' = NoIcb
  /\ fi' = 0
  /\ vrsReads' = 0
  /\ vdsReads' = 0
  /\ nsrSeen' = FALSE
  /\ tdSeen' = FALSE
  /\ pmOrig' = <<>>

AvdpMatches(c, cand) ==
  /\ c.tag_ident = GRUB_UDF_TAG_IDENT_AVDP
  /\ c.tag_location = cand

\* The loop control after one AVDP read that did not fail: the inner break,
\* the inner loop's end, and the outer "if (block) break".
ProbeAdvance(lb, si, c) ==
  LET cand == sblocklist[si]
      matched == AvdpMatches(c, cand)
      blk == IF matched THEN c.vds_start ELSE 0
      innerEnds == matched \/ sblocklist[si + 1] = 0
  IN  IF ~innerEnds
      THEN [lbshift |-> lb, sbi |-> si + 1, block |-> blk, pc |-> "probe"]
      ELSE IF blk # 0
      THEN [lbshift |-> lb, sbi |-> si, block |-> blk, pc |-> "probed"]
      ELSE [lbshift |-> lb + 1, sbi |-> 1, block |-> blk,
            pc |-> IF lb + 1 < 4 THEN "probe" ELSE "probed"]

\* One iteration of the inner probe loop.
MountProbe ==
  /\ pc = "probe"
  /\ UNCHANGED notMountVars
  /\ \E c \in AvdpContents :
       LET cand == sblocklist[sbi]
           sector == Shl(cand, lbshift)
           nxt == ProbeAdvance(lbshift, sbi, c)
       IN  /\ \A k \in 1..Len(probeLog) :
                probeLog[k].sector = sector => probeLog[k].c = c
           /\ probeLog' = Append(probeLog, [lbshift |-> lbshift, cand |-> cand,
                                            sector |-> sector, c |-> c])
           /\ rd' = [sector |-> sector, for |-> "avdp"]
           /\ UNCHANGED badSeen
           /\ IF ~c.ok
              THEN MountFail(ERR_NOT_UDF)
              ELSE /\ pc' = nxt.pc
                   /\ lbshift' = nxt.lbshift
                   /\ sbi' = nxt.sbi
                   /\ block' = nxt.block
                   /\ UNCHANGED <<err, vblock, d_lbshift, pds, pms, lvd,
                                  root_icb, fi, vrsReads, vdsReads, nsrSeen,
                                  tdSeen, pmOrig>>

VrsStart(lb) == Shr(32767, lb + GRUB_DISK_SECTOR_BITS) + 1
VrsStep(lb) == Shr(2047, lb + GRUB_DISK_SECTOR_BITS) + 1

\* Lines 351-359: "if (!block)" after the probe loop, data->lbshift, and the
\* initialisation of the VRS loop.  The loop's avdp goes out of scope.
MountProbeDone ==
  /\ pc = "probed"
  /\ UNCHANGED notMountVars
  /\ IF block = 0
     THEN /\ MountFail(ERR_NOT_UDF)
          /\ UNCHANGED <<rd, probeLog, badSeen>>
     ELSE /\ pc' = "vrs"
          /\ d_lbshift' = lbshift
          /\ vblock' = VrsStart(lbshift)
          /\ probeLog' = <<>>
          /\ UNCHANGED badSeen
          /\ UNCHANGED <<err, lbshift, sbi, block, pds, pms, lvd, root_icb,
                         fi, rd, vrsReads, vdsReads, nsrSeen, tdSeen, pmOrig>>

IsSkippedMagicNoCdw02(magic) == magic \in {"BEA01", "BOOT2", "CD001", "TEA01"}

IsNsr(magic) == magic \in {"NSR03", "NSR02"}
IsSkippedMagic(magic) == magic \in {"BEA01", "BOOT2", "CD001", "CDW02", "TEA01"}

\* What one VRS structure does to the loop.
VrsDispatch(c) ==
  IF ~c.ok THEN "fail"
  ELSE IF IsNsr(c.magic) THEN "found"
  ELSE IF ~IsSkippedMagic(c.magic) THEN "fail"
  ELSE "next"

\* One iteration of the VRS loop; on NSR0x, line 386 (npd = npm = 0), and
\* vblock is not read again.
MountVrs ==
  /\ pc = "vrs"
  /\ UNCHANGED notMountVars
  /\ \E c \in VrsContents :
       LET k == VrsDispatch(c)
       IN  /\ vrsReads >= MaxVrs => ~c.ok
           /\ rd' = [sector |-> Shl(vblock, lbshift), for |-> "vrs",
                     ok |-> c.ok, magic |-> c.magic]
           /\ UNCHANGED <<probeLog, badSeen>>
           /\ IF k = "fail"
              THEN MountFail(ERR_NOT_UDF)
              ELSE /\ pc' = IF k = "found" THEN "vds" ELSE "vrs"
                   /\ nsrSeen' = (c.magic \in {"NSR02", "NSR03"})
                   /\ vblock' = IF k = "next" THEN vblock + VrsStep(lbshift)
                                ELSE 0
                   /\ vrsReads' = IF k = "next" THEN vrsReads + 1 ELSE 0
                   /\ UNCHANGED <<err, lbshift, sbi, block, d_lbshift, pds,
                                  pms, lvd, root_icb, fi, vdsReads, tdSeen,
                                  pmOrig>>

VdsDispatchNoIdentCheck(ident) ==
  IF ident = GRUB_UDF_TAG_IDENT_PVD THEN "pvd"
  ELSE IF ident = GRUB_UDF_TAG_IDENT_PD THEN "pd"
  ELSE IF ident = GRUB_UDF_TAG_IDENT_LVD THEN "lvd"
  ELSE IF ident = GRUB_UDF_TAG_IDENT_TD THEN "td"
  ELSE "skip"

\* The if/else-if chain of the VDS loop on tag.tag_ident.
VdsDispatch(ident) ==
  IF ident = GRUB_UDF_TAG_IDENT_PVD THEN "pvd"
  ELSE IF ident = GRUB_UDF_TAG_IDENT_PD THEN "pd"
  ELSE IF ident = GRUB_UDF_TAG_IDENT_LVD THEN "lvd"
  ELSE IF ident > GRUB_UDF_TAG_IDENT_TD THEN "invalid"
  ELSE IF ident = GRUB_UDF_TAG_IDENT_TD THEN "td"
  ELSE "skip"

\* The partition map loop of an LVD: the pointers stored in data->pms, each a
\* byte offset into data->lvd.part_maps, or a failure on a map of another type.
RECURSIVE PmWalk(_, _, _)
PmWalk(maps, p, k) ==
  IF k = 0 THEN [ok |-> TRUE, ptrs |-> <<>>]
  ELSE IF maps[p].type # GRUB_UDF_PARTMAP_TYPE_1
  THEN [ok |-> FALSE, ptrs |-> <<>>]
  ELSE LET rest == PmWalk(maps, p + maps[p].length, k - 1)
       IN  [ok |-> rest.ok, ptrs |-> <<p>> \o rest.ptrs]

\* One iteration of the VDS loop on the block's content c: the new values of
\* what the iteration may change.
VdsIteration(c, d_pds, d_pms, d_lvd, orig) ==
  LET same == [pc |-> "vds", err |-> "", pds |-> d_pds, pms |-> d_pms,
               lvd |-> d_lvd, pmOrig |-> orig]
      failed(e) == [same EXCEPT !.pc = "fail", !.err = e]
      kind == IF c.ok THEN VdsDispatch(c.tag_ident) ELSE "unreadable"
  IN  IF ~c.ok THEN failed(ERR_NOT_UDF)
      ELSE IF kind = "pvd"
      THEN IF c.full_ok THEN same ELSE failed(ERR_NOT_UDF)
      ELSE IF kind = "pd"
      THEN IF Len(d_pds) >= GRUB_UDF_MAX_PDS THEN failed("too many PDs")
           ELSE IF ~c.full_ok THEN failed(ERR_NOT_UDF)
           ELSE [same EXCEPT !.pds = Append(d_pds, c.pd)]
      ELSE IF kind = "lvd"
      THEN IF ~c.full_ok THEN failed(ERR_NOT_UDF)
           ELSE IF Len(d_pms) + c.lvd.num_part_maps > GRUB_UDF_MAX_PMS
           THEN failed("too many partition maps")
           ELSE LET w == PmWalk(c.lvd.part_maps, 0, c.lvd.num_part_maps)
                IN  IF ~w.ok
                    THEN failed("partmap type not supported")
                    ELSE [same EXCEPT
                            !.lvd = c.lvd,
                            !.pms = d_pms \o w.ptrs,
                            !.pmOrig = orig \o [n \in 1..Len(w.ptrs) |->
                                          c.lvd.part_maps[w.ptrs[n]].part_num]]
      ELSE IF kind = "invalid" THEN failed("invalid tag ident")
      ELSE IF kind = "td" THEN [same EXCEPT !.pc = "fixup"]
      ELSE same

MountVds ==
  /\ pc = "vds"
  /\ UNCHANGED notMountVars
  /\ \E c \in VdsContents :
       LET r == VdsIteration(c, pds, pms, lvd, pmOrig)
       IN  /\ vdsReads >= MaxVds => ~c.ok
           /\ rd' = [sector |-> Shl(block, lbshift), for |-> "vds"]
           /\ badSeen' = (badSeen \/ ~c.ok
                              \/ (c.ok /\ c.tag_ident > GRUB_UDF_TAG_IDENT_TD))
           /\ UNCHANGED probeLog
           /\ IF r.pc = "fail"
              THEN MountFail(r.err)
              ELSE /\ pc' = r.pc
                   /\ pds' = r.pds
                   /\ pms' = r.pms
                   /\ lvd' = r.lvd
                   /\ pmOrig' = r.pmOrig
                   /\ block' = IF r.pc = "vds" THEN block + 1 ELSE block
                   /\ tdSeen' = (c.tag_ident = GRUB_UDF_TAG_IDENT_TD)
                   /\ vdsReads' = vdsReads + 1
                   /\ fi' = 0
                   /\ UNCHANGED <<err, lbshift, sbi, vblock, d_lbshift,
                                  root_icb, vrsReads, nsrSeen>>

\* The inner loop of the fixup: the first j with pds[j].part_num equal to
\* part_num, or npd.
FindPd(d_pds, part_num) ==
  LET hits == {j \in 0..(Len(d_pds) - 1) : d_pds[j + 1].part_num = part_num}
  IN  IF hits = {} THEN Len(d_pds)
      ELSE CHOOSE j \in hits : \A h \in hits : j <= h

\* One iteration of the fixup loop: pms[i]->type1.part_num is read and
\* rewritten in place, in data->lvd.part_maps.
MountFixup ==
  /\ pc = "fixup"
  /\ UNCHANGED notMountVars
  /\ fi < Len(pms)
  /\ UNCHANGED <<rd, probeLog, badSeen>>
  /\ LET p == pms[fi + 1]
         j == FindPd(pds, lvd.part_maps[p].part_num)
     IN  IF j = Len(pds)
         THEN MountFail("can't find PD")
         ELSE /\ lvd' = [lvd EXCEPT !.part_maps[p].part_num = j]
              /\ fi' = fi + 1
              /\ UNCHANGED <<pc, err, lbshift, sbi, block, vblock, d_lbshift,
                             pds, pms, root_icb, vrsReads, vdsReads, nsrSeen,
                             tdSeen, pmOrig>>

\* data->lvd.root_fileset.block.part_ref; of an lvd never read, any value.
RootPartRefs(d_lvd) == IF d_lvd.init THEN {d_lvd.root_part_ref} ELSE {0, 1}

\* Lines 493-515: the fileset descriptor.
MountRootFsd ==
  /\ pc = "fixup"
  /\ UNCHANGED notMountVars
  /\ fi = Len(pms)
  /\ UNCHANGED <<probeLog, badSeen>>
  /\ \E part_ref \in RootPartRefs(lvd), c \in FsdContents :
       LET b == grub_udf_get_block(pms, pds, lvd, part_ref, lvd.root_block)
           sector == Shl(ToNat(b.block), lbshift)
       IN  IF b.err # ""
           THEN /\ MountFail(b.err)
                /\ UNCHANGED rd
           ELSE /\ rd' = [sector |-> sector, for |-> "fsd"]
                /\ IF ~c.ok
                   THEN MountFail(ERR_NOT_UDF)
                   ELSE IF c.tag_ident # GRUB_UDF_TAG_IDENT_FSD
                   THEN MountFail("invalid fileset descriptor")
                   ELSE /\ pc' = "done"
                        /\ block' = ToNat(b.block)
                        /\ root_icb' = c.root_icb
                        /\ UNCHANGED <<err, lbshift, sbi, vblock, d_lbshift,
                                       pds, pms, lvd, fi, vrsReads, vdsReads,
                                       nsrSeen, tdSeen, pmOrig>>

MountNext ==
  \/ MountProbe
  \/ MountProbeDone
  \/ MountVrs
  \/ MountVds
  \/ MountFixup
  \/ MountRootFsd

\* grub_udf_mount is entered; no other call is in progress.
InitMount ==
  MountInit /\ BlockIdle /\ DirIdle
    /\ LinkIdle /\ UuidIdle /\ FsIdle

SpecMount == InitMount /\ [][MountNext]_vars

(***************************************************************************)
(* Properties of grub_udf_mount.                                           *)
(***************************************************************************)
MountReturned == pc = "done"

\* The partition map data->pms[i-1] as it is after mount.
PartMapAt(i) == lvd.part_maps[pms[i]]

\* C1: after a successful mount every partition map's rewritten part_num is
\* an index j < npd of a PD whose part_num is the map's on-disk part_num.
C1_PartitionFixup ==
  MountReturned =>
    \A i \in 1..Len(pms) :
      /\ PartMapAt(i).part_num < Len(pds)
      /\ pds[PartMapAt(i).part_num + 1].part_num = pmOrig[i]

\* C2: a VolumeData that mount returns has lbshift in 0..3 and
\* (1 << lbshift) * 512 = lvd.bsize.
C2_BlockSize ==
  MountReturned =>
    /\ d_lbshift \in 0..3
    /\ Shl(1, d_lbshift) * 512 = lvd.bsize

\* The pairs (lbshift, candidate) in the order lbshift = 0..3, 256 then 512.
ProbePair(k) ==
  [lbshift |-> (k - 1) \div 2, cand |-> IF k % 2 = 1 THEN 256 ELSE 512]

ProbeEntryMatches(e) ==
  e.c.ok /\ e.c.tag_ident = 2 /\ e.c.tag_location = e.cand

ProbeEnded == pc = "probed" \/ (pc = "fail" /\ probeLog # <<>>)
ProbeFails == pc = "fail" \/ (pc = "probed" /\ block = 0)

\* C3: on a disk whose probed sectors are all readable, the probe visits
\* the pairs in order, each at sector candidate << lbshift, stops at the
\* first pair that matches, records its lbshift and vds.start, and mount
\* fails there exactly when no pair matches.
C3_ProbeOrder ==
  (ProbeEnded /\ \A k \in 1..Len(probeLog) : probeLog[k].c.ok) =>
    LET n == Len(probeLog)
    IN  /\ n \in 1..8
        /\ \A k \in 1..n :
             /\ probeLog[k].lbshift = ProbePair(k).lbshift
             /\ probeLog[k].cand = ProbePair(k).cand
             /\ probeLog[k].sector = Shl(probeLog[k].cand, probeLog[k].lbshift)
        /\ \A k \in 1..(n - 1) : ~ProbeEntryMatches(probeLog[k])
        /\ ProbeEntryMatches(probeLog[n]) \/ n = 8
        /\ ProbeFails <=> ~ProbeEntryMatches(probeLog[n])
        /\ ~ProbeFails => /\ lbshift = probeLog[n].lbshift
                          /\ block = probeLog[n].c.vds_start

\* C4: the VDS walk starts at the recorded avdp.vds.start, reads consecutive
\* logical blocks, and a mount succeeds only after a TD was read; an
\* unreadable block or a tag identifier above 8 fails the mount; once the
\* first TD is read no further VDS block is read and the partition tables
\* collected from the VDS are final.
C4_VdsWalk ==
  /\ [](pc \in {"fixup", "done"} => tdSeen)
  /\ [](badSeen => (pc = "fail" /\ err # ""))
  /\ []((pc = "probed" /\ block # 0) =>
          block = probeLog[Len(probeLog)].c.vds_start)
  /\ [][(pc \in {"probed", "vrs"} /\ pc' # "fail") => block' = block]_vars
  /\ [][pc = "vds" =>
          /\ rd'.for = "vds"
          /\ rd'.sector = Shl(block, lbshift)
          /\ pc' = "vds" => block' = block + 1]_vars
  /\ [][tdSeen =>
          /\ rd' = rd \/ rd'.for = "fsd"
          /\ pc' # "fail" => (pds' = pds /\ pms' = pms)]_vars

\* C4 witness: a mount that succeeded after walking descriptors up to a TD.
C4_Witness ==
  /\ MountReturned
  /\ tdSeen
  /\ vdsReads >= 3
  /\ Len(pds) >= 1

\* The sector of the VRS structure read after n skipped ones, as the source
\* computes it: a logical block number shifted to 512-byte sectors.
VrsSector(lb, n) ==
  (((32767 \div (2 ^ (lb + 9))) + 1) + n * ((2047 \div (2 ^ (lb + 9))) + 1))
    * (2 ^ lb)

\* C5: the VRS scan reads logical block (32767 >> (lbshift+9)) + 1, then
\* steps by (2047 >> (lbshift+9)) + 1 logical blocks, each read at sector
\* block << lbshift; NSR02 or NSR03 confirms UDF, the five other known
\* magics are skipped, and any other magic or a read error fails the mount
\* with "not an UDF filesystem".
C5_VrsScan ==
  /\ [](pc \in {"vds", "fixup", "done"} => nsrSeen)
  /\ [][pc = "vrs" =>
          /\ rd'.for = "vrs"
          /\ rd'.sector = VrsSector(lbshift, vrsReads)
          /\ (rd'.ok /\ rd'.magic \in {"NSR02", "NSR03"}) => pc' = "vds"
          /\ (rd'.ok /\ rd'.magic \in
                {"BEA01", "BOOT2", "CD001", "CDW02", "TEA01"}) => pc' = "vrs"
          /\ (~rd'.ok \/ rd'.magic \notin
                {"NSR02", "NSR03", "BEA01", "BOOT2", "CD001", "CDW02",
                 "TEA01"}) => (pc' = "fail" /\ err' = "not an UDF filesystem")
       ]_vars

\* C5 witness: at lbshift 2, NSR0x was found in the second structure, read
\* at sector 68 = (16 + 1) << 2.
C5_Witness ==
  /\ pc = "vds"
  /\ nsrSeen
  /\ lbshift = 2
  /\ rd.for = "vrs"
  /\ rd.sector = 68

\* C5 as stated: the start and the step are 512-byte sector numbers.
C5_SectorUnits ==
  [][pc = "vrs" =>
       rd'.sector = ((32767 \div (2 ^ (lbshift + 9))) + 1)
                      + vrsReads * ((2047 \div (2 ^ (lbshift + 9))) + 1)]_vars

(***************************************************************************)
(* grub_udf_read_block                                                     *)
(***************************************************************************)
\* A volume as mount leaves it: two partitions, the second one starting 16
\* blocks below 2^32, and one type-1 map for each, part_num already an index.
BigStart == [hi |-> 65535, lo |-> 65520]

BlockVolumes ==
  {v \in [lbshift : {0, 2},
          lvd : {[UninitLvd EXCEPT
                    !.init = TRUE, !.bsize = b, !.num_part_maps = 2,
                    !.part_maps =
                      (0 :> [type |-> 1, length |-> 6, part_num |-> 0]
                       @@ 6 :> [type |-> 1, length |-> 6, part_num |-> 1])]
                   : b \in {512, 2048}},
          pds : {<<[part_num |-> 0, start |-> U32Of(64)],
                   [part_num |-> 1, start |-> BigStart]>>},
          pms : {<<0, 6>>}] :
     v.lbshift = 2 => v.lvd.bsize = 2048}

\* Allocation descriptors of a file entry: length's type (top 2 bits) and
\* byte count (low 30 bits), the position or block_num, and for a long_ad
\* the part_ref.
ExtPosition == [hi |-> GRUB_UDF_EXT_MASK_HI, lo |-> 5]

NodeAdVals ==
  {[type |-> 0, adlen |-> 512, position |-> U32Of(32), part_ref |-> 0],
   [type |-> 0, adlen |-> 0, position |-> U32Of(5), part_ref |-> 0],
   [type |-> 1, adlen |-> 2048, position |-> U32Of(32), part_ref |-> 1],
   [type |-> 0, adlen |-> 512, position |-> ExtPosition, part_ref |-> 0],
   [type |-> 0, adlen |-> 512, position |-> U32Of(5), part_ref |-> 2],
   [type |-> 3, adlen |-> 512, position |-> U32Of(9), part_ref |-> 0]}

\* sizeof (struct grub_udf_short_ad), sizeof (struct grub_udf_long_ad).
AdSize(flags) ==
  IF flags % (GRUB_UDF_ICBTAG_FLAG_AD_MASK + 1) = GRUB_UDF_ICBTAG_FLAG_AD_SHORT
  THEN 8 ELSE 16

UnreadAd == [type |-> 0, adlen |-> 0, position |-> U32Of(5), part_ref |-> 0]

\* File entries.  A short_ad has no part_ref and a node of long_ads does not
\* use its own; the descriptor area holds MaxAds descriptors, and those that
\* alloc_descs_length does not reach are never read.  The nodes of strategy
\* AD_EXT are file entries (tag FE) only.
BlockNodes ==
  {n \in [tag_ident : {GRUB_UDF_TAG_IDENT_FE, GRUB_UDF_TAG_IDENT_EFE, 0},
          flags : {GRUB_UDF_ICBTAG_FLAG_AD_SHORT, GRUB_UDF_ICBTAG_FLAG_AD_LONG,
                   GRUB_UDF_ICBTAG_FLAG_AD_EXT},
          part_ref : {0, 1},
          alloc_descs_length : {0, 8, 16, 20, 32},
          ads : [1..MaxAds -> NodeAdVals]] :
     /\ n.alloc_descs_length \div AdSize(n.flags) <= MaxAds
     /\ \A i \in 1..MaxAds :
          i > n.alloc_descs_length \div AdSize(n.flags) => n.ads[i] = UnreadAd
     /\ n.flags = GRUB_UDF_ICBTAG_FLAG_AD_SHORT =>
          \A i \in 1..MaxAds : n.ads[i].part_ref = 0
     /\ n.flags # GRUB_UDF_ICBTAG_FLAG_AD_SHORT => n.part_ref = 0
     /\ n.flags = GRUB_UDF_ICBTAG_FLAG_AD_EXT =>
          n.tag_ident = GRUB_UDF_TAG_IDENT_FE
     /\ n.tag_ident = 0 =>
          /\ n.flags = GRUB_UDF_ICBTAG_FLAG_AD_SHORT
          /\ n.part_ref = 0
          /\ n.alloc_descs_length = 0}

\* What a read of an allocation extent descriptor block returns: a failure,
\* or a tag, ae_len and the descriptors after the header.
AedData == [type |-> 0, adlen |-> 512, position |-> U32Of(7), part_ref |-> 0]
AedSame == [type |-> 3, adlen |-> 512, position |-> U32Of(9), part_ref |-> 0]
AedOther ==
  [type |-> 3, adlen |-> 4096, position |-> U32Of(10), part_ref |-> 0]

NoAds == <<AedData, AedData>>

AedContents ==
  {[ok |-> FALSE, tag_ident |-> 0, ae_len |-> 0, ads |-> NoAds],
   [ok |-> TRUE, tag_ident |-> 0, ae_len |-> 0, ads |-> NoAds],
   [ok |-> TRUE, tag_ident |-> GRUB_UDF_TAG_IDENT_AED, ae_len |-> 0,
    ads |-> NoAds]}
  \cup [ok : {TRUE}, tag_ident : {GRUB_UDF_TAG_IDENT_AED}, ae_len : {8, 16},
        ads : {<<AedData, AedData>>, <<AedData, AedSame>>,
               <<AedSame, AedData>>, <<AedOther, AedData>>}]

BlockInit ==
  /\ vd \in BlockVolumes
  /\ node \in BlockNodes
  /\ fileblock \in 0..MaxFileblock
  /\ rb_pc = "start"
  /\ len = 0
  /\ ad = 0
  /\ adlist = <<>>
  /\ filebytes = 0
  /\ buf = FALSE
  /\ sec = U32Of(0)
  /\ ret = Zero64
  /\ rb_err = ""
  /\ aedDisk = {}
  /\ sawAed = FALSE

\* A 32-bit value plus a small number in grub_disk_addr_t (64 bits).
Add64(a, n) ==
  LET lo == a.lo + n
      hi == a.hi + (lo \div Half)
  IN  [c |-> hi \div Half, hi |-> hi % Half, lo |-> lo % Half]

ExtMaskedTopBit(position) == position.hi \div 32768 = 1

\* U32 (position) & GRUB_UDF_EXT_MASK
ExtMasked(position) == (position.hi \div GRUB_UDF_EXT_MASK_HI) % 2 = 1

\* The part_ref an allocation descriptor is resolved with.
AdPartRef(a) ==
  IF AdSize(node.flags) = 8 THEN node.part_ref ELSE a.part_ref

\* "return 0" and the returns of a found descriptor; the locals are gone.
ReadBlockReturn(r, e) ==
  /\ rb_pc' = "done"
  /\ ret' = r
  /\ rb_err' = e
  /\ len' = 0
  /\ ad' = 0
  /\ adlist' = <<>>
  /\ filebytes' = 0
  /\ buf' = FALSE
  /\ sec' = U32Of(0)
  /\ aedDisk' = {}

\* Lines 139-160 and 213: the switch on the tag, ptr, len, filebytes.
ReadBlockStart ==
  /\ rb_pc = "start"
  /\ UNCHANGED notBlockVars
  /\ UNCHANGED <<vd, node, fileblock, sawAed>>
  /\ IF node.tag_ident \notin {GRUB_UDF_TAG_IDENT_FE, GRUB_UDF_TAG_IDENT_EFE}
     THEN ReadBlockReturn(Zero64, "invalid file entry")
     ELSE /\ rb_pc' = "loop"
          /\ len' = node.alloc_descs_length
          /\ adlist' = node.ads
          /\ ad' = 1
          /\ filebytes' = fileblock * vd.lvd.bsize
          /\ UNCHANGED <<buf, sec, ret, rb_err, aedDisk>>

\* The while condition fails: the fail label, return 0.
ReadBlockExhausted ==
  /\ rb_pc = "loop"
  /\ UNCHANGED notBlockVars
  /\ len < AdSize(node.flags)
  /\ ReadBlockReturn(Zero64, rb_err)
  /\ UNCHANGED <<vd, node, fileblock, sawAed>>

\* adtype == 3: sec is computed and buf allocated if it is not yet.
ReadBlockContinuation ==
  /\ rb_pc = "loop"
  /\ UNCHANGED notBlockVars
  /\ len >= AdSize(node.flags)
  /\ adlist[ad].type = 3
  /\ UNCHANGED <<vd, node, fileblock, sawAed>>
  /\ LET g == grub_udf_get_block(vd.pms, vd.pds, vd.lvd,
                                 AdPartRef(adlist[ad]), adlist[ad].position)
     IN  \/ /\ ~buf                      \* grub_malloc returns NULL
            /\ ReadBlockReturn(Zero64, "out of memory")
         \/ /\ rb_pc' = "aed"
            /\ sec' = g.block
            /\ buf' = TRUE
            /\ rb_err' = IF g.err # "" THEN g.err ELSE rb_err
            /\ UNCHANGED <<len, ad, adlist, filebytes, ret, aedDisk>>

\* The extent block is read into buf and its descriptors replace the list;
\* filebytes is unchanged.
ReadBlockAed ==
  /\ rb_pc = "aed"
  /\ UNCHANGED notBlockVars
  /\ UNCHANGED <<vd, node, fileblock>>
  /\ \E c \in AedContents :
       /\ \A p \in aedDisk : p[1] = sec => p[2] = c
       /\ IF ~c.ok
          THEN /\ ReadBlockReturn(Zero64, "read error")
               /\ UNCHANGED sawAed
          ELSE IF c.tag_ident # GRUB_UDF_TAG_IDENT_AED
          THEN /\ ReadBlockReturn(Zero64, "invalid aed tag")
               /\ UNCHANGED sawAed
          ELSE /\ rb_pc' = "loop"
               /\ len' = c.ae_len
               /\ adlist' = c.ads
               /\ ad' = 1
               /\ aedDisk' = aedDisk \cup {<<sec, c>>}
               /\ sawAed' = TRUE
               /\ UNCHANGED <<filebytes, buf, sec, ret, rb_err>>

\* filebytes < adlen: the descriptor holds the block.
ReadBlockFound ==
  /\ rb_pc = "loop"
  /\ UNCHANGED notBlockVars
  /\ len >= AdSize(node.flags)
  /\ adlist[ad].type # 3
  /\ filebytes < adlist[ad].adlen
  /\ UNCHANGED <<vd, node, fileblock, sawAed>>
  /\ IF ExtMasked(adlist[ad].position)
     THEN ReadBlockReturn(Zero64, rb_err)
     ELSE LET g == grub_udf_get_block(vd.pms, vd.pds, vd.lvd,
                                      AdPartRef(adlist[ad]),
                                      adlist[ad].position)
          IN  ReadBlockReturn(
                Add64(g.block,
                      Shr(filebytes, GRUB_DISK_SECTOR_BITS + vd.lbshift)),
                IF g.err # "" THEN g.err ELSE rb_err)

\* filebytes -= adlen; ad++; len -= sizeof (*ad).
ReadBlockAdvance ==
  /\ rb_pc = "loop"
  /\ UNCHANGED notBlockVars
  /\ len >= AdSize(node.flags)
  /\ adlist[ad].type # 3
  /\ filebytes >= adlist[ad].adlen
  /\ filebytes' = filebytes - adlist[ad].adlen
  /\ ad' = ad + 1
  /\ len' = len - AdSize(node.flags)
  /\ UNCHANGED <<vd, node, fileblock, rb_pc, adlist, buf, sec, ret, rb_err,
                 aedDisk, sawAed>>

BlockNext ==
  \/ ReadBlockStart
  \/ ReadBlockExhausted
  \/ ReadBlockContinuation
  \/ ReadBlockAed
  \/ ReadBlockFound
  \/ ReadBlockAdvance

\* grub_udf_read_block is entered; no other call is in progress.
InitBlock ==
  MountInit /\ BlockInit /\ DirIdle
    /\ LinkIdle /\ UuidIdle /\ FsIdle

SpecBlock == InitBlock /\ [][BlockNext]_vars

\* grub_udf_read_block runs without interruption until it returns.
SpecBlockFair == SpecBlock /\ WF_vars(BlockNext)

(***************************************************************************)
(* Properties of grub_udf_read_block.                                      *)
(***************************************************************************)
\* The reference: the first descriptor i of the n in the list such that
\* fb less the lengths of the descriptors before it is below its length.
RECURSIVE RefFind(_, _, _, _)
RefFind(ads, n, i, fb) ==
  IF i > n THEN [found |-> FALSE, i |-> 0, rest |-> 0]
  ELSE IF fb < ads[i].adlen THEN [found |-> TRUE, i |-> i, rest |-> fb]
  ELSE RefFind(ads, n, i + 1, fb - ads[i].adlen)

RefNumAds == node.alloc_descs_length \div (IF node.flags = 0 THEN 8 ELSE 16)
RefHit == RefFind(node.ads, RefNumAds, 1, fileblock * vd.lvd.bsize)
RefAd == node.ads[RefHit.i]
RefPartRef == IF node.flags = 0 THEN node.part_ref ELSE RefAd.part_ref
RefNotPresent == ~RefHit.found \/ (RefAd.position.hi \div 16384) % 2 = 1
RefStart == vd.pds[vd.lvd.part_maps[vd.pms[RefPartRef + 1]].part_num + 1].start
RefOffset == RefHit.rest \div (2 ^ (9 + vd.lbshift))

\* start + position + offset, as a number of three 16-bit digits and a carry.
RefSum ==
  LET lo == RefStart.lo + RefAd.position.lo + RefOffset
      hi == RefStart.hi + RefAd.position.hi + (lo \div Half)
  IN  [c |-> hi \div Half, hi |-> hi % Half, lo |-> lo % Half]

\* ((start + position) mod 2^32) + offset.
RefSum32 ==
  LET lo == RefStart.lo + RefAd.position.lo
      hi == (RefStart.hi + RefAd.position.hi + (lo \div Half)) % Half
      lo2 == (lo % Half) + RefOffset
      hi2 == hi + (lo2 \div Half)
  IN  [c |-> hi2 \div Half, hi |-> hi2 % Half, lo |-> lo2 % Half]

\* The call returned for a file entry of short or long descriptors with no
\* continuation descriptor whose hit, if any, names a partition map of the
\* volume.
RefCase ==
  /\ rb_pc = "done"
  /\ node.tag_ident \in {261, 266}
  /\ node.flags \in {0, 1}
  /\ \A i \in 1..RefNumAds : node.ads[i].type # 3
  /\ (RefHit.found /\ ~RefNotPresent) => RefPartRef < Len(vd.pms)

\* C6: for a node with no continuation descriptor, grub_udf_read_block
\* returns 0 when no descriptor covers fileblock * bsize or the covering one
\* has the EXT_MASK bit in its position, and otherwise the 32-bit sum of the
\* partition's start and the position, plus the remaining bytes >>
\* (9 + lbshift).
C6_ResolveFileblock ==
  RefCase =>
    /\ rb_err = ""
    /\ ret = IF RefNotPresent THEN Zero64 ELSE RefSum32

\* C6 witness: the second descriptor covers the block, at a non-zero offset
\* into its extent.
C6_Witness ==
  /\ RefCase
  /\ RefHit.found
  /\ RefHit.i = 2
  /\ ~RefNotPresent
  /\ RefOffset > 0
  /\ ret = RefSum32

\* C6 as stated: the result is start + position + offset.
C6_ExactSum ==
  RefCase => ret = IF RefNotPresent THEN Zero64 ELSE RefSum

\* C16: grub_udf_read_block on a file entry whose strategy is AD_EXT does
\* not walk the node's bytes as allocation descriptors; it returns 0 with
\* an error.
C16_ExtRejected ==
  (/\ node.flags = GRUB_UDF_ICBTAG_FLAG_AD_EXT
   /\ node.tag_ident \in {GRUB_UDF_TAG_IDENT_FE, GRUB_UDF_TAG_IDENT_EFE}
   /\ rb_pc = "done") =>
    (ret = Zero64 /\ rb_err # "")

\* C17: when grub_udf_read_block follows a continuation descriptor, the
\* adlen bytes that grub_disk_read is about to store fit in buf, which has
\* lvd.bsize bytes.
C17_BufferBounds ==
  rb_pc = "aed" => adlist[ad].adlen <= vd.lvd.bsize

\* C7: every call of grub_udf_read_block returns.
C7_Terminates == <>(rb_pc = "done")

(***************************************************************************)
(* grub_udf_read_file as grub_udf_iterate_dir uses it, read_string,        *)
(* grub_udf_iterate_dir and the return of grub_udf_dir                     *)
(***************************************************************************)
\* sizeof (struct grub_udf_file_ident)
FID_HEADER_SIZE == 38

\* The directory's file entry.
DirNodes ==
  [flags : {GRUB_UDF_ICBTAG_FLAG_AD_IN_ICB, GRUB_UDF_ICBTAG_FLAG_AD_SHORT,
            GRUB_UDF_ICBTAG_FLAG_AD_EXT},
   file_size : {0, 44, MaxDirSize}]

\* What grub_udf_read_file can return for a read of n bytes, with the
\* grub_errno it sets: n itself for data embedded in the ICB; 0 and an error
\* for the AD_EXT strategy; for allocation descriptors what
\* grub_fshelp_read_file returns: n, fewer bytes, or -1 and an error.
ReadFileResults(flags, n) ==
  IF flags % (GRUB_UDF_ICBTAG_FLAG_AD_MASK + 1) = GRUB_UDF_ICBTAG_FLAG_AD_IN_ICB
  THEN {[n |-> n, err |-> ""]}
  ELSE IF flags % (GRUB_UDF_ICBTAG_FLAG_AD_MASK + 1)
            = GRUB_UDF_ICBTAG_FLAG_AD_EXT
  THEN {[n |-> 0, err |-> "invalid extent type"]}
  ELSE {[n |-> n, err |-> ""], [n |-> -1, err |-> "read error"]}
       \cup (IF n > 0 THEN {[n |-> n - 1, err |-> ""]} ELSE {})

\* File identifier descriptors: tag, L_IU, L_FI and the characteristics.
NoFid == [tag_ident |-> 0, imp_use_length |-> 0, file_ident_length |-> 0,
          characteristics |-> 0]

FidHeaders ==
  {NoFid}
  \cup {[tag_ident |-> GRUB_UDF_TAG_IDENT_FID, imp_use_length |-> x[1],
         file_ident_length |-> x[2], characteristics |-> x[3]] :
          x \in {<<0, 0, 4>>, <<65535, 255, 4>>, <<0, 3, 6>>, <<0, 0, 10>>,
                 <<0, 2, 0>>, <<2, 3, 2>>, <<0, 0, 0>>}}

\* The bytes of a file identifier of L_FI bytes.
RawIdents(L_FI) ==
  IF L_FI = 2 THEN {<<8, 97>>, <<7, 97>>}
  ELSE IF L_FI = 3 THEN {<<16, 0, 98>>, <<8, 97, 98>>}
  ELSE {<<>>}

\* What grub_malloc and grub_udf_read_icb make of the child: a file entry, a
\* file entry of a symlink, no memory, or a failed read_icb.
ChildResults == {"fe", "symlink", "nomem", "bad"}

CharBit(characteristics, bit) == (characteristics \div bit) % 2 = 1

read_string8(raw, sz) ==
  IF sz = 0 \/ raw[1] \notin {8, 16} THEN [ok |-> FALSE, s |-> <<>>]
  ELSE [ok |-> TRUE, s |-> [i \in 1..(sz - 1) |-> raw[i + 1]]]

\* read_string with outbuf = 0: NULL, or the UTF-16 units that
\* grub_utf16_to_utf8 converts.
read_string(raw, sz) ==
  IF sz = 0 THEN [ok |-> FALSE, s |-> <<>>]
  ELSE IF raw[1] # 8 /\ raw[1] # 16 THEN [ok |-> FALSE, s |-> <<>>]
  ELSE IF raw[1] = 8
  THEN [ok |-> TRUE, s |-> [i \in 1..(sz - 1) |-> raw[i + 1]]]
  ELSE [ok |-> TRUE,
        s |-> [i \in 1..((sz - 1) \div 2) |->
                 raw[2 * i] * 256 + raw[2 * i + 1]]]

AlignDwordNone(x) == x

\* (x + 3) & ~3
AlignDword(x) == ((x + 3) \div 4) * 4

DirInit ==
  /\ dir \in DirNodes
  /\ d_pc = "start"
  /\ offset = 0
  /\ d_ret = 0
  /\ d_err = ""
  /\ dir_ret = ""
  /\ hooks = <<>>
  /\ fidLog = <<>>
  /\ iters = 0
  /\ stopped = FALSE
  /\ failHooks = -1

\* Lines 617-625: the child for ".", and the first hook call.
IterateDirStart ==
  /\ d_pc = "start"
  /\ UNCHANGED notDirVars
  /\ UNCHANGED <<dir, offset, dir_ret, fidLog, iters, failHooks>>
  /\ \/ /\ d_pc' = "returned"            \* grub_malloc returns NULL
        /\ d_ret' = 0
        /\ d_err' = "out of memory"
        /\ UNCHANGED <<hooks, stopped>>
     \/ \E stop \in BOOLEAN :
          /\ hooks' = <<[name |-> <<46>>, type |-> "DIR"]>>
          /\ stopped' = stop
          /\ d_ret' = IF stop THEN 1 ELSE 0
          /\ d_pc' = IF stop THEN "returned" ELSE "loop"
          /\ UNCHANGED d_err

\* One iteration of the while loop on the descriptor at offset off: h is the
\* result of reading the header, f the header, child the child's fate, r the
\* result of reading the identifier, raw its bytes, stop the hook's answer.
FidStep(off, errno, h, f, child, r, raw, stop) ==
  LET off1 == off + FID_HEADER_SIZE + f.imp_use_length
      off2 == AlignDword(off1 + f.file_ident_length)
      fail(e) == [kind |-> "fail", err |-> e, hook |-> <<>>, offset |-> off1,
                  failed |-> TRUE]
      next(hk, bad) == [kind |-> "next", err |-> errno, hook |-> hk,
                        offset |-> off2, failed |-> bad]
      called(hk) == IF stop
                    THEN [kind |-> "stop", err |-> errno, hook |-> hk,
                          offset |-> off1, failed |-> FALSE]
                    ELSE next(hk, FALSE)
      fn == read_string(raw, f.file_ident_length)
      type == IF child = "symlink" THEN "SYMLINK"
              ELSE IF CharBit(f.characteristics, GRUB_UDF_FID_CHAR_DIRECTORY)
              THEN "DIR" ELSE "REG"
  IN  IF h.n # FID_HEADER_SIZE
      THEN [fail(IF h.err # "" THEN h.err ELSE errno) EXCEPT !.offset = off]
      ELSE IF f.tag_ident # GRUB_UDF_TAG_IDENT_FID
      THEN [fail("invalid fid tag") EXCEPT !.offset = off]
      ELSE IF CharBit(f.characteristics, GRUB_UDF_FID_CHAR_DELETED)
      THEN next(<<>>, FALSE)
      ELSE IF child = "nomem" THEN fail("out of memory")
      ELSE IF child = "bad" THEN fail("invalid fe/efe descriptor")
      ELSE IF CharBit(f.characteristics, GRUB_UDF_FID_CHAR_PARENT)
      THEN called(<<[name |-> <<46, 46>>, type |-> "DIR"]>>)
      ELSE IF r.n # f.file_ident_length
      THEN fail(IF r.err # "" THEN r.err ELSE errno)
      ELSE IF ~fn.ok
      THEN next(<<>>, TRUE)     \* grub_free (child), the loop goes on
      ELSE called(<<[name |-> fn.s, type |-> type]>>)

\* What the iteration read of the descriptor, for the record.
FidEntry(off, h, f, child, r, raw) ==
  LET hdr == h.n = FID_HEADER_SIZE
      tagged == hdr /\ f.tag_ident = GRUB_UDF_TAG_IDENT_FID
      live == tagged /\ ~CharBit(f.characteristics, GRUB_UDF_FID_CHAR_DELETED)
      named == /\ live
               /\ child \in {"fe", "symlink"}
               /\ ~CharBit(f.characteristics, GRUB_UDF_FID_CHAR_PARENT)
      got == named /\ r.n = f.file_ident_length
  IN  [offset |-> off,
       hdr |-> hdr,
       fid |-> IF tagged THEN f ELSE NoFid,
       child |-> IF live THEN child ELSE "none",
       ident |-> got,
       raw |-> IF got THEN raw ELSE <<>>]

IterateDirEntry ==
  /\ d_pc = "loop"
  /\ UNCHANGED notDirVars
  /\ offset < dir.file_size
  /\ \E h \in ReadFileResults(dir.flags, FID_HEADER_SIZE), f \in FidHeaders,
        child \in ChildResults, stop \in BOOLEAN :
       \E r \in ReadFileResults(dir.flags, f.file_ident_length),
          raw \in RawIdents(f.file_ident_length) :
         LET st == FidStep(offset, d_err, h, f, child, r, raw, stop)
         IN  /\ iters' = iters + 1
             /\ fidLog' = Append(fidLog, FidEntry(offset, h, f, child, r, raw))
             /\ hooks' = hooks \o st.hook
             /\ offset' = st.offset
             /\ d_err' = st.err
             /\ stopped' = (st.kind = "stop")
             /\ d_ret' = IF st.kind = "stop" THEN 1 ELSE 0
             /\ d_pc' = IF st.kind = "next" THEN "loop" ELSE "returned"
             /\ failHooks' = IF st.failed /\ failHooks < 0
                             THEN Len(hooks) ELSE failHooks
             /\ UNCHANGED <<dir, dir_ret>>

\* The while condition fails: return 0.
IterateDirEnd ==
  /\ d_pc = "loop"
  /\ UNCHANGED notDirVars
  /\ offset >= dir.file_size
  /\ d_pc' = "returned"
  /\ d_ret' = 0
  /\ UNCHANGED <<dir, offset, d_err, dir_ret, hooks, fidLog, iters, stopped,
                 failHooks>>

\* grub_udf_dir after grub_udf_iterate_dir: return grub_errno.
DirReturn ==
  /\ d_pc = "returned"
  /\ UNCHANGED notDirVars
  /\ d_pc' = "done"
  /\ dir_ret' = d_err
  /\ UNCHANGED <<dir, offset, d_ret, d_err, hooks, fidLog, iters, stopped,
                 failHooks>>

DirNext ==
  \/ IterateDirStart
  \/ IterateDirEntry
  \/ IterateDirEnd
  \/ DirReturn

\* grub_udf_iterate_dir is entered; no other call is in progress.
InitDir ==
  MountInit /\ BlockIdle /\ DirInit
    /\ LinkIdle /\ UuidIdle /\ FsIdle

SpecDir == InitDir /\ [][DirNext]_vars

(***************************************************************************)
(* Properties of grub_udf_iterate_dir and grub_udf_dir.                    *)
(***************************************************************************)
FidDeleted(e) == (e.fid.characteristics \div 4) % 2 = 1
FidParent(e) == (e.fid.characteristics \div 8) % 2 = 1

\* A descriptor that was read whole, has tag 257 and, unless deleted, a
\* readable child ICB and, unless the parent's, an identifier of L_FI >= 2
\* bytes with compression id 8 or 16.
FidWellFormed(e) ==
  /\ e.hdr
  /\ e.fid.tag_ident = 257
  /\ \/ FidDeleted(e)
     \/ /\ e.child \in {"fe", "symlink"}
        /\ \/ FidParent(e)
           \/ /\ e.ident
              /\ Len(e.raw) = e.fid.file_ident_length
              /\ Len(e.raw) >= 2
              /\ e.raw[1] \in {8, 16}

\* The identifier in OSTA compressed unicode: 8-bit units, or 16-bit
\* big-endian units.
RefDecode(raw) ==
  IF raw[1] = 8 THEN Tail(raw)
  ELSE [i \in 1..((Len(raw) - 1) \div 2) |-> raw[2 * i] * 256 + raw[2 * i + 1]]

RECURSIVE RefNames(_, _)
RefNames(log, i) ==
  IF i > Len(log) THEN <<>>
  ELSE (IF FidDeleted(log[i]) THEN <<>>
        ELSE IF FidParent(log[i]) THEN << <<46, 46>> >>
        ELSE << RefDecode(log[i].raw) >>) \o RefNames(log, i + 1)

HookNames == [i \in 1..Len(hooks) |-> hooks[i].name]

DirWellFormed ==
  /\ d_pc \in {"loop", "returned", "done"}
  /\ hooks # <<>>
  /\ \A i \in 1..Len(fidLog) : FidWellFormed(fidLog[i])

C9_OffsetMonotonic ==
  /\ [](d_pc = "loop" => offset % 4 = 0)
  /\ [](iters <= dir.file_size \div 40 + 1)
  /\ [][(d_pc = "loop" /\ d_pc' = "loop") =>
          (offset' > offset /\ offset' % 4 = 0)]_vars

\* C9 witness: a third iteration starts after a descriptor whose length is
\* not a multiple of 4.
C9_Witness ==
  /\ d_pc = "loop"
  /\ iters = 2
  /\ offset < dir.file_size
  /\ \E i \in 1..2 : (fidLog[i].fid.imp_use_length
                       + fidLog[i].fid.file_ident_length) % 4 # 2

\* C10: once a step has failed on an entry, the hook is not called again,
\* the iteration has stopped, and grub_udf_dir returns an error.
C10_FailureStops ==
  failHooks >= 0 =>
    /\ Len(hooks) = failHooks
    /\ d_pc \in {"returned", "done"}
    /\ d_pc = "done" => dir_ret # ""

\* C15: on a directory whose data is embedded in the ICB, the read of
\* each 38-byte descriptor header and the read of each identifier of L_FI
\* bytes ends at or before file_size: offset + len <= file_size.
C15_ReadWithinFile ==
  dir.flags = GRUB_UDF_ICBTAG_FLAG_AD_IN_ICB =>
    \A i \in 1..Len(fidLog) :
      /\ fidLog[i].offset + FID_HEADER_SIZE <= dir.file_size
      /\ fidLog[i].ident =>
           fidLog[i].offset + FID_HEADER_SIZE + fidLog[i].fid.imp_use_length
             + fidLog[i].fid.file_ident_length <= dir.file_size

(***************************************************************************)
(* grub_udf_read_symlink                                                   *)
(***************************************************************************)
\* The most path components in a symlink's file.
MaxSymComps == 3

\* Path components as they lie in the file: type, length, two reserved
\* bytes and the identifier.  The last four are not well formed: a root
\* with an identifier, an unknown type, a reserved byte set, an identifier
\* longer than the bytes that follow.
SymComponents ==
  {<<1, 0, 0, 0>>, <<2, 0, 0, 0>>, <<3, 0, 0, 0>>, <<4, 0, 0, 0>>,
   <<5, 6, 0, 0, 8, 111, 116, 104, 101, 114>>,
   <<5, 5, 0, 0, 8, 102, 105, 108, 101>>,
   <<5, 3, 0, 0, 16, 0, 98>>,
   <<1, 1, 0, 0, 8>>, <<6, 0, 0, 0>>, <<3, 0, 1, 0>>,
   <<5, 4, 0, 0, 8, 97>>}

RECURSIVE SymFilesOf(_)
SymFilesOf(k) ==
  IF k = 0 THEN {<<>>}
  ELSE {f \o c : f \in SymFilesOf(k - 1), c \in SymComponents}

\* The bytes of a symlink's file: up to MaxSymComps components, or two bytes.
SymFiles ==
  {<<2, 0>>} \cup UNION {SymFilesOf(k) : k \in 1..MaxSymComps}

\* The symlink's file entry; file_size is the number of bytes.  No byte of
\* an AD_EXT file is ever read, so two such files stand for all.
SymNodes ==
  [flags : {GRUB_UDF_ICBTAG_FLAG_AD_IN_ICB, GRUB_UDF_ICBTAG_FLAG_AD_SHORT},
   bytes : SymFiles]
  \cup [flags : {GRUB_UDF_ICBTAG_FLAG_AD_EXT},
        bytes : {<<2, 0, 0, 0>>, <<3, 0, 0, 0, 4, 0, 0, 0>>}]

\* What a read of a byte that grub_udf_read_file did not store can give.
HeapBytes == {0, 1, 2}

LinkInit ==
  /\ sl_node \in SymNodes
  /\ sl_pc = "start"
  /\ sl_sz = 0
  /\ sl_got = 0
  /\ sl_ptr = 0
  /\ sl_out = <<>>
  /\ sl_ret = ""
  /\ sl_err = ""
  /\ sl_heap = {}
  /\ sl_nomem = FALSE
  /\ sl_maxread = 0

\* return NULL, or goto fail_0, fail_1: what is allocated is freed.
ReadSymlinkReturn(r, e, nomem) ==
  /\ sl_pc' = "done"
  /\ sl_ret' = r
  /\ sl_err' = e
  /\ sl_heap' = IF r = "out" THEN {"out"} ELSE {}
  /\ sl_nomem' = (sl_nomem \/ nomem)

\* Lines 712-737: sz, raw, the read of the whole file, out.
ReadSymlinkStart ==
  /\ sl_pc = "start"
  /\ UNCHANGED notLinkVars
  /\ UNCHANGED <<sl_node, sl_ptr, sl_out, sl_maxread>>
  /\ LET sz == Len(sl_node.bytes)
     IN  IF sz < 4
         THEN /\ ReadSymlinkReturn("NULL", sl_err, FALSE)
              /\ UNCHANGED <<sl_sz, sl_got>>
         ELSE \/ /\ ReadSymlinkReturn("NULL", "out of memory", TRUE)  \* raw
                 /\ UNCHANGED <<sl_sz, sl_got>>
              \/ \E r \in ReadFileResults(sl_node.flags, sz) :
                   IF r.n < 0
                   THEN /\ ReadSymlinkReturn("NULL", "invalid symlink", FALSE)
                        /\ UNCHANGED <<sl_sz, sl_got>>
                   ELSE /\ sl_got' = r.n
                        /\ sl_sz' = 2 * sz + 1
                        /\ \/ ReadSymlinkReturn("NULL", "out of memory", TRUE)
                           \/ /\ sl_pc' = "loop"
                              /\ sl_heap' = {"raw", "out"}
                              /\ sl_err' = r.err
                              /\ UNCHANGED <<sl_ret, sl_nomem>>

\* The bytes of read_string that one component makes it read.
StringBytesRead(id, n) ==
  IF n = 0 THEN 0
  ELSE IF id = 8 THEN n
  ELSE IF id = 16 THEN 1 + 2 * ((n - 1) \div 2)
  ELSE 1

\* Lines 741-783: one component at ptr.  hx and bx stand for the bytes at
\* ptr[0 .. 3] and ptr[4 ..] that grub_udf_read_file did not store; calloc
\* tells whether read_string gets its UTF-16 buffer.
ReadSymlinkComponent ==
  /\ sl_pc = "loop"
  /\ UNCHANGED notLinkVars
  /\ UNCHANGED <<sl_node, sl_sz, sl_got>>
  /\ sl_ptr < sl_sz
  /\ IF sl_ptr + 4 > sl_sz
     THEN /\ ReadSymlinkReturn("NULL", "invalid symlink", FALSE)
          /\ UNCHANGED <<sl_ptr, sl_out, sl_maxread>>
     ELSE \E hx \in IF sl_ptr + 4 > sl_got THEN [0..3 -> HeapBytes]
                    ELSE {[j \in 0..3 |-> 0]} :
       LET at(i, x) == IF i < sl_got THEN sl_node.bytes[i + 1] ELSE x
           hdr == [j \in 0..3 |-> at(sl_ptr + j, hx[j])]
           s == 4 + hdr[1]
           sep == IF sl_out # <<>> THEN <<47>> ELSE <<>>
           fail == /\ ReadSymlinkReturn("NULL", "invalid symlink", FALSE)
                   /\ UNCHANGED <<sl_ptr, sl_out>>
           emit(o) == /\ sl_out' = o
                      /\ sl_ptr' = sl_ptr + s
                      /\ UNCHANGED <<sl_pc, sl_ret, sl_err, sl_heap, sl_nomem>>
           hread == IF sl_ptr + 4 > sl_maxread THEN sl_ptr + 4 ELSE sl_maxread
       IN  IF ~(hdr[2] = 0 /\ hdr[3] = 0)
           THEN fail /\ sl_maxread' = hread
           ELSE IF sl_ptr + s > sl_sz
           THEN fail /\ sl_maxread' = hread
           ELSE IF hdr[0] = 1 /\ hdr[1] # 0
           THEN fail /\ sl_maxread' = hread
           ELSE IF hdr[0] \in {1, 2}
           THEN emit(<<47>>) /\ sl_maxread' = hread
           ELSE IF hdr[0] = 3
           THEN emit(sl_out \o sep \o <<46, 46>>) /\ sl_maxread' = hread
           ELSE IF hdr[0] = 4
           THEN emit(sl_out \o sep \o <<46>>) /\ sl_maxread' = hread
           ELSE IF hdr[0] = 5
           THEN \E bx \in IF sl_ptr + s > sl_got
                          THEN [1..hdr[1] -> HeapBytes]
                          ELSE {[k \in 1..hdr[1] |-> 0]} :
                  LET body == [k \in 1..hdr[1] |->
                                 at(sl_ptr + 3 + k, bx[k])]
                      fn == read_string(body, s - 4)
                      n == StringBytesRead(IF hdr[1] = 0 THEN 0 ELSE body[1],
                                           hdr[1])
                  IN  /\ sl_maxread' = IF sl_ptr + 4 + n > hread
                                       THEN sl_ptr + 4 + n ELSE hread
                      /\ IF ~fn.ok THEN fail
                         ELSE \/ emit(sl_out \o sep \o fn.s)
                              \/ /\ ReadSymlinkReturn("NULL",
                                                      "invalid symlink", TRUE)
                                 /\ UNCHANGED <<sl_ptr, sl_out>>
           ELSE fail /\ sl_maxread' = hread

\* Lines 784-786: the loop has ended; out is returned.
ReadSymlinkEnd ==
  /\ sl_pc = "loop"
  /\ UNCHANGED notLinkVars
  /\ UNCHANGED <<sl_node, sl_sz, sl_got, sl_ptr, sl_out, sl_maxread>>
  /\ sl_ptr >= sl_sz
  /\ ReadSymlinkReturn("out", sl_err, FALSE)

LinkNext ==
  \/ ReadSymlinkStart
  \/ ReadSymlinkComponent
  \/ ReadSymlinkEnd

\* grub_udf_read_symlink is entered; no other call is in progress.
InitLink ==
  MountInit /\ BlockIdle /\ DirIdle
    /\ LinkInit /\ UuidIdle /\ FsIdle

SpecLink == InitLink /\ [][LinkNext]_vars

(***************************************************************************)
(* Properties of grub_udf_read_symlink.                                    *)
(***************************************************************************)
\* The component table applied to the file's bytes b from byte p on, o
\* being the output so far: the target, or no target when a component is
\* not well formed or does not fit in the file.
RECURSIVE RefTarget(_, _, _)
RefTarget(b, p, o) ==
  LET none == [ok |-> FALSE, s |-> <<>>]
      type == b[p + 1]
      L == b[p + 2]
      sep == IF o = <<>> THEN <<>> ELSE <<47>>
      id == SubSeq(b, p + 5, p + 4 + L)
  IN  IF p = Len(b) THEN [ok |-> TRUE, s |-> o]
      ELSE IF p + 4 > Len(b) THEN none
      ELSE IF b[p + 3] # 0 \/ b[p + 4] # 0 THEN none
      ELSE IF p + 4 + L > Len(b) THEN none
      ELSE IF type = 1 THEN (IF L = 0 THEN RefTarget(b, p + 4, <<47>>)
                             ELSE none)
      ELSE IF type = 2 THEN RefTarget(b, p + 4 + L, <<47>>)
      ELSE IF type = 3 THEN RefTarget(b, p + 4, o \o sep \o <<46, 46>>)
      ELSE IF type = 4 THEN RefTarget(b, p + 4, o \o sep \o <<46>>)
      ELSE IF type = 5
      THEN (IF L > 0 /\ id[1] \in {8, 16}
            THEN RefTarget(b, p + 4 + L, o \o sep \o RefDecode(id))
            ELSE none)
      ELSE none

\* grub_udf_read_symlink has returned after the whole file was read into
\* raw and every allocation succeeded.
SymlinkRead ==
  /\ sl_pc = "done"
  /\ Len(sl_node.bytes) >= 4
  /\ sl_sz = 2 * Len(sl_node.bytes) + 1
  /\ sl_got = Len(sl_node.bytes)
  /\ ~sl_nomem

\* The components {3, 5("other"), 5("file")} of "../other/file".
SymOtherFile ==
  <<3, 0, 0, 0>> \o <<5, 6, 0, 0, 8, 111, 116, 104, 101, 114>>
    \o <<5, 5, 0, 0, 8, 102, 105, 108, 101>>

\* C11: when a symlink's file of at least 4 bytes has been read whole,
\* read_symlink returns the target that the component table gives for the
\* file's bytes (the components {3, 5("other"), 5("file")} give
\* "../other/file"), and fails with "invalid symlink" when the bytes are
\* not a sequence of well-formed components that fit in the file.
C11_SymlinkTable ==
  SymlinkRead =>
    LET t == RefTarget(sl_node.bytes, 0, <<>>)
    IN  IF t.ok THEN sl_ret = "out" /\ sl_out = t.s
        ELSE sl_ret = "NULL" /\ sl_err = "invalid symlink"

\* C14: with n the symlink's file_size and the n bytes of the file read
\* into raw, read_symlink reads no byte of raw at index n or above, and the
\* component walk does not go on past raw + n.
C14_SymlinkBounds ==
  sl_got = Len(sl_node.bytes) =>
    /\ sl_maxread <= Len(sl_node.bytes)
    /\ sl_ptr <= Len(sl_node.bytes)

(***************************************************************************)
(* gen_uuid_from_volset                                                    *)
(***************************************************************************)
\* The longest volume set identifier, in bytes of UTF-8.
MaxVolsetLen == 18

\* "DEADBEEFCAFEBABE" and "0a9Ff1bC2d3E4e5A"
HexRuns ==
  {<<68, 69, 65, 68, 66, 69, 69, 70, 67, 65, 70, 69, 66, 65, 66, 69>>,
   <<48, 97, 57, 70, 102, 49, 98, 67, 50, 100, 51, 69, 52, 101, 53, 65>>}

\* Bytes that are no hexadecimal digit: the neighbours of '0', '9', 'A',
\* 'F', 'a', 'f', then '-', 'x' and a byte of a multi-byte sequence.
NonHexBytes == {47, 58, 64, 71, 96, 103, 45, 120, 195}

\* "DEADBEEFCAFEBABE-garbage" and "ABC-xxxxxxxxxxxxx"
VolsetS6 ==
  <<68, 69, 65, 68, 66, 69, 69, 70, 67, 65, 70, 69, 66, 65, 66, 69,
    45, 103, 97, 114, 98, 97, 103, 101>>
VolsetS7 ==
  <<65, 66, 67, 45, 120, 120, 120, 120, 120, 120, 120, 120, 120, 120, 120,
    120, 120>>

\* Decoded identifiers: k hexadecimal digits, then one other byte repeated.
VolsetIdents ==
  {VolsetS6, VolsetS7}
  \cup {[i \in 1..n |-> IF i <= k THEN h[i] ELSE c] :
          n \in 0..MaxVolsetLen, k \in 0..16, h \in HexRuns,
          c \in NonHexBytes}

UuidInit ==
  /\ volset_ident \in VolsetIdents
  /\ u_pc = "start"
  /\ u_len = 0
  /\ u_buf = <<>>
  /\ nonhexpos = 0
  /\ uuid = <<>>
  /\ u_ret = ""

grub_isxdigit(c) ==
  (c >= 48 /\ c <= 57) \/ (c >= 97 /\ c <= 102) \/ (c >= 65 /\ c <= 70)

grub_tolowerNone(c) == c

grub_tolower(c) == IF c >= 65 /\ c <= 90 THEN c - 65 + 97 ELSE c

\* One digit of %x.
HexDigit(d) == IF d < 10 THEN 48 + d ELSE 97 + d - 10

\* %02x of a grub_uint8_t
Fmt02x(b) == <<HexDigit(b \div 16), HexDigit(b % 16)>>

\* Lines 982-1004: len, uuid, buf and the scan for nonhexpos.
GenUuidScan ==
  /\ u_pc = "start"
  /\ UNCHANGED notUuidVars
  /\ UNCHANGED <<volset_ident, uuid>>
  /\ LET l == Len(volset_ident)
         n == IF l > 16 THEN 16 ELSE l
         b == [i \in 0..16 |-> IF i < n THEN volset_ident[i + 1] ELSE 0]
         bad == {i \in 0..15 : ~grub_isxdigit(b[i])}
     IN  IF l < 8
         THEN /\ u_pc' = "done"
              /\ u_ret' = "NULL"
              /\ UNCHANGED <<u_len, u_buf, nonhexpos>>
         ELSE \/ /\ u_pc' = "done"          \* grub_malloc returns NULL
                 /\ u_ret' = "NULL"
                 /\ UNCHANGED <<u_len, u_buf, nonhexpos>>
              \/ /\ u_pc' = "format"
                 /\ u_len' = n
                 /\ u_buf' = b
                 /\ nonhexpos' = IF bad = {} THEN 16
                                 ELSE CHOOSE i \in bad : \A j \in bad : i <= j
                 /\ UNCHANGED u_ret

\* Lines 1006-1025: the three ways to fill uuid.
GenUuidFormat ==
  /\ u_pc = "format"
  /\ UNCHANGED notUuidVars
  /\ UNCHANGED <<volset_ident, u_len, u_buf, nonhexpos>>
  /\ uuid' = IF nonhexpos < 8
             THEN Fmt02x(u_buf[0]) \o Fmt02x(u_buf[1]) \o Fmt02x(u_buf[2])
                    \o Fmt02x(u_buf[3]) \o Fmt02x(u_buf[4])
                    \o Fmt02x(u_buf[5]) \o Fmt02x(u_buf[6])
                    \o Fmt02x(u_buf[7])
             ELSE IF nonhexpos < 16
             THEN [i \in 1..8 |-> grub_tolower(u_buf[i - 1])]
                    \o Fmt02x(u_buf[8]) \o Fmt02x(u_buf[9])
                    \o Fmt02x(u_buf[10]) \o Fmt02x(u_buf[11])
             ELSE [i \in 1..16 |-> grub_tolower(u_buf[i - 1])]
  /\ u_pc' = "done"
  /\ u_ret' = "uuid"

UuidNext ==
  \/ GenUuidScan
  \/ GenUuidFormat

\* gen_uuid_from_volset is entered; no other call is in progress.
InitUuid ==
  MountInit /\ BlockIdle /\ DirIdle
    /\ LinkIdle /\ UuidInit /\ FsIdle

SpecUuid == InitUuid /\ [][UuidNext]_vars

(***************************************************************************)
(* Properties of gen_uuid_from_volset.                                     *)
(***************************************************************************)
\* The characters "0123456789abcdef" and "ABCDEF".
RefLowerHex == {48, 49, 50, 51, 52, 53, 54, 55, 56, 57,
                97, 98, 99, 100, 101, 102}
RefUpperHex == {65, 66, 67, 68, 69, 70}

\* b: the first 16 bytes of v, zero padded (1-based).
RefPadded(v) == [i \in 1..16 |-> IF i <= Len(v) THEN v[i] ELSE 0]

\* k: the index of the first byte of b that is no hexadecimal digit, or 16.
RefFirstNonHex(b) ==
  IF \A i \in 1..16 : b[i] \in RefLowerHex \cup RefUpperHex THEN 16
  ELSE (CHOOSE i \in 1..16 :
          /\ b[i] \notin RefLowerHex \cup RefUpperHex
          /\ \A j \in 1..(i - 1) : b[j] \in RefLowerHex \cup RefUpperHex) - 1

RefLower(c) == IF c \in RefUpperHex THEN c + 32 ELSE c

\* The two lowercase hexadecimal digits of each byte of bs, in order.
RefHexOf(bs) ==
  LET digits == <<48, 49, 50, 51, 52, 53, 54, 55, 56, 57,
                  97, 98, 99, 100, 101, 102>>
  IN  [i \in 1..(2 * Len(bs)) |->
         IF i % 2 = 1 THEN digits[(bs[(i + 1) \div 2] \div 16) + 1]
         ELSE digits[(bs[i \div 2] % 16) + 1]]

\* The rule of the uuid for an identifier v of 8 bytes or more.
RefUuid(v) ==
  LET b == RefPadded(v)
      k == RefFirstNonHex(b)
  IN  IF k < 8 THEN RefHexOf(SubSeq(b, 1, 8))
      ELSE IF k < 16
      THEN [i \in 1..8 |-> RefLower(b[i])] \o RefHexOf(SubSeq(b, 9, 12))
      ELSE [i \in 1..16 |-> RefLower(b[i])]

\* C12: when gen_uuid_from_volset has returned, the result is none for an
\* identifier of fewer than 8 bytes; otherwise, unless the allocation
\* failed, it is the string the rule gives, which has exactly 16
\* characters, all in [0-9a-f].
C12_UuidRule ==
  u_pc = "done" =>
    IF Len(volset_ident) < 8 THEN u_ret = "NULL"
    ELSE u_ret = "uuid" =>
           /\ uuid = RefUuid(volset_ident)
           /\ Len(uuid) = 16
           /\ \A i \in 1..16 : uuid[i] \in RefLowerHex

\* "4142432d78787878" is returned for "ABC-xxxxxxxxxxxxx", and
\* "deadbeefcafebabe" is what the rule gives for "DEADBEEFCAFEBABE-garbage".
C12_Witness ==
  /\ u_pc = "done"
  /\ u_ret = "uuid"
  /\ volset_ident = VolsetS7
  /\ uuid = <<52, 49, 52, 50, 52, 51, 50, 100, 55, 56, 55, 56, 55, 56, 55,
              56>>
  /\ RefUuid(VolsetS6) = <<100, 101, 97, 100, 98, 101, 101, 102, 99, 97, 102,
                           101, 98, 97, 98, 101>>

(***************************************************************************)
(* The top-level calls: grub_udf_dir, grub_udf_open, grub_udf_read,        *)
(* grub_udf_close, grub_udf_label, grub_udf_uuid.                          *)
(***************************************************************************)
\* The most files open at once, and the most entries of a directory.
MaxOpen == 2
MaxEntries == 2

\* The allocations a call holds in its locals, and those a file holds.
DATA == <<"data", 0>>
ROOTNODE == <<"rootnode", 0>>
FOUNDNODE == <<"foundnode", 0>>
CHILD == <<"child", 0>>
FILENAME == <<"filename", 0>>
BUF == <<"buf", 0>>
DSTRING == <<"string", 0>>
UUID == <<"uuid", 0>>
FileNode(i) == <<"node", i>>
FileData(i) == <<"data", i>>

\* grub_malloc returned x.
Alloc(h, x) ==
  [h EXCEPT !.live = @ \cup {x}, !.dangling = @ \ {x}]

\* grub_free (x): x is live, or was freed already, or is NULL.
Free(h, x) ==
  IF x \in h.live
  THEN [h EXCEPT !.live = @ \ {x}, !.dangling = @ \cup {x}]
  ELSE IF x \in h.dangling THEN [h EXCEPT !.dfree = TRUE]
  ELSE h

\* A read through the pointer x.
Use(h, x) == IF x \in h.dangling THEN [h EXCEPT !.uaf = TRUE] ELSE h

\* The pointer x is given to the caller, who owns it from now on.
Handed(h, x) == [h EXCEPT !.live = @ \ {x}]

\* The call returns: its locals are gone.
Returned(h) == [h EXCEPT !.dangling = {}]

grub_dl_ref(n) == n + 1

grub_dl_unrefNone(n) == n

grub_dl_unref(n) == n - 1

\* Lines 855-859 and 896-900: grub_dl_ref, then grub_udf_mount, which
\* returns data or frees it and returns 0.
FsMount(call) ==
  /\ fs_pc = "idle"
  /\ UNCHANGED notFsVars
  /\ my_mod' = grub_dl_ref(my_mod)
  /\ found_root' = FALSE
  /\ fs_n' = 0
  /\ UNCHANGED <<opened, g_last_fileattr_offset>>
  /\ \/ fs_pc' = call \o "_fail" /\ UNCHANGED heap
     \/ fs_pc' = call \o "_mounted" /\ heap' = Alloc(heap, DATA)

FsDir ==
  /\ fs_pc = "idle"
  /\ FsMount("dir")

FsOpen ==
  /\ Cardinality(opened) < MaxOpen
  /\ FsMount("open")

\* Lines 861-873: rootnode, grub_udf_read_icb and grub_fshelp_find_file,
\* which gives rootnode itself or a node of its own, or frees what it
\* allocated and fails.
DirResolve ==
  /\ fs_pc = "dir_mounted"
  /\ UNCHANGED notFsVars
  /\ UNCHANGED <<my_mod, opened, fs_n, g_last_fileattr_offset>>
  /\ \/ fs_pc' = "dir_fail" /\ UNCHANGED <<heap, found_root>>
     \/ /\ fs_pc' = "dir_fail"
        /\ heap' = Alloc(heap, ROOTNODE)
        /\ UNCHANGED found_root
     \/ /\ fs_pc' = "dir_iterate"
        /\ \/ found_root' = TRUE /\ heap' = Alloc(heap, ROOTNODE)
           \/ /\ found_root' = FALSE
              /\ heap' = Alloc(Alloc(heap, ROOTNODE), FOUNDNODE)

\* grub_udf_dir_iter: grub_free (node), then the caller's hook.
grub_udf_dir_iter(h, x) == Free(h, x)

\* Lines 617-625: the child for "." and its hook call.
DirIterateStart ==
  /\ fs_pc = "dir_iterate"
  /\ UNCHANGED notFsVars
  /\ UNCHANGED <<my_mod, opened, found_root, fs_n, g_last_fileattr_offset>>
  /\ \/ fs_pc' = "dir_after" /\ UNCHANGED heap
     \/ /\ heap' = grub_udf_dir_iter(Alloc(heap, CHILD), CHILD)
        /\ fs_pc' \in {"dir_after", "dir_loop"}

\* What one iteration of the while loop meets.
EntryKinds ==
  {"badheader", "deleted", "nomem", "badicb", "parent", "badident",
   "nofilename", "named"}

\* Lines 627-704: the loop ends, or one iteration, whose hook returns stop.
DirIterateEntry ==
  /\ fs_pc = "dir_loop"
  /\ UNCHANGED notFsVars
  /\ UNCHANGED <<my_mod, opened, found_root>>
  /\ \/ /\ fs_pc' = "dir_after"         \* offset >= file_size
        /\ UNCHANGED <<heap, fs_n, g_last_fileattr_offset>>
     \/ /\ fs_n < MaxEntries
        /\ fs_n' = fs_n + 1
        /\ \E kind \in EntryKinds, stop \in BOOLEAN :
             LET c == Alloc(heap, CHILD)
                 hooked == grub_udf_dir_iter(Alloc(c, FILENAME), CHILD)
             IN  CASE kind \in {"badheader", "nomem"} ->
                        /\ fs_pc' = "dir_after"
                        /\ UNCHANGED <<heap, g_last_fileattr_offset>>
                   [] kind = "deleted" ->
                        /\ fs_pc' = "dir_loop"
                        /\ UNCHANGED <<heap, g_last_fileattr_offset>>
                   [] kind \in {"badicb", "badident"} ->
                        /\ fs_pc' = "dir_after"
                        /\ heap' = Free(c, CHILD)
                        /\ UNCHANGED g_last_fileattr_offset
                   [] kind = "nofilename" ->
                        /\ fs_pc' = "dir_loop"
                        /\ heap' = Free(c, CHILD)
                        /\ UNCHANGED g_last_fileattr_offset
                   [] kind = "parent" ->
                        /\ fs_pc' = IF stop THEN "dir_after" ELSE "dir_loop"
                        /\ heap' = grub_udf_dir_iter(c, CHILD)
                        /\ UNCHANGED g_last_fileattr_offset
                   [] kind = "named" ->
                        IF stop
                        THEN /\ fs_pc' = "dir_after"
                             /\ heap' = Free(Use(hooked, CHILD), FILENAME)
                             /\ g_last_fileattr_offset' \in
                                  IF CHILD \in hooked.dangling
                                  THEN {"child", "stale"} ELSE {"child"}
                        ELSE /\ fs_pc' = "dir_loop"
                             /\ heap' = Free(hooked, FILENAME)
                             /\ UNCHANGED g_last_fileattr_offset

\* Lines 877-878: foundnode is freed unless it is rootnode.
DirFreeFound ==
  /\ fs_pc = "dir_after"
  /\ UNCHANGED notFsVars
  /\ UNCHANGED <<my_mod, opened, found_root, fs_n, g_last_fileattr_offset>>
  /\ fs_pc' = "dir_fail"
  /\ heap' = IF found_root THEN heap ELSE Free(heap, FOUNDNODE)

\* Lines 880-886: the fail label of grub_udf_dir.
DirFail ==
  /\ fs_pc = "dir_fail"
  /\ UNCHANGED notFsVars
  /\ UNCHANGED <<opened, found_root, fs_n, g_last_fileattr_offset>>
  /\ fs_pc' = "idle"
  /\ heap' = Returned(Free(Free(heap, ROOTNODE), DATA))
  /\ my_mod' = grub_dl_unref(my_mod)

\* Lines 902-921: rootnode, read_icb, find_file; on success file->data is
\* foundnode, whose data is the volume, and rootnode is freed.
OpenResolve ==
  /\ fs_pc = "open_mounted"
  /\ UNCHANGED notFsVars
  /\ UNCHANGED <<my_mod, found_root, fs_n, g_last_fileattr_offset>>
  /\ \/ fs_pc' = "open_fail" /\ UNCHANGED <<heap, opened>>
     \/ /\ fs_pc' = "open_fail"
        /\ heap' = Alloc(heap, ROOTNODE)
        /\ UNCHANGED opened
     \/ \E file \in (1..MaxOpen) \ opened :
          LET h == Alloc(Alloc(heap, ROOTNODE), FOUNDNODE)
              held == [h EXCEPT !.live = (@ \ {FOUNDNODE, DATA})
                                   \cup {FileNode(file), FileData(file)}]
          IN  /\ fs_pc' = "idle"
              /\ opened' = opened \cup {file}
              /\ heap' = Returned(Free(held, ROOTNODE))

\* Lines 923-929: the fail label of grub_udf_open.
OpenFail ==
  /\ fs_pc = "open_fail"
  /\ UNCHANGED notFsVars
  /\ UNCHANGED <<opened, found_root, fs_n, g_last_fileattr_offset>>
  /\ fs_pc' = "idle"
  /\ my_mod' = grub_dl_unref(my_mod)
  /\ heap' = Returned(Free(Free(heap, DATA), ROOTNODE))

\* grub_udf_read: grub_udf_read_file on file->data; grub_udf_read_block may
\* allocate buf for a continuation extent.
FsRead ==
  /\ fs_pc = "idle"
  /\ UNCHANGED notFsVars
  /\ UNCHANGED <<my_mod, opened, found_root, fs_n, g_last_fileattr_offset>>
  /\ \E file \in opened :
       /\ fs_pc' = "read"
       /\ heap' \in {Use(Use(heap, FileNode(file)), FileData(file)),
                     Alloc(Use(Use(heap, FileNode(file)), FileData(file)),
                           BUF)}

\* grub_udf_read_block returns: grub_free (buf).
ReadReturn ==
  /\ fs_pc = "read"
  /\ UNCHANGED notFsVars
  /\ UNCHANGED <<my_mod, opened, found_root, fs_n, g_last_fileattr_offset>>
  /\ fs_pc' = "idle"
  /\ heap' = Returned(Free(heap, BUF))

\* Lines 942-955: grub_udf_close.
FsClose ==
  /\ fs_pc = "idle"
  /\ UNCHANGED notFsVars
  /\ UNCHANGED <<fs_pc, found_root, fs_n, g_last_fileattr_offset>>
  /\ \E file \in opened :
       /\ opened' = opened \ {file}
       /\ heap' = Returned(Free(Free(Use(heap, FileNode(file)),
                                     FileData(file)), FileNode(file)))
       /\ my_mod' = grub_dl_unref(my_mod)

\* grub_udf_label and grub_udf_uuid up to the return of grub_udf_mount; a
\* failed mount returns at once.
FsLabelUuid ==
  /\ fs_pc = "idle"
  /\ UNCHANGED notFsVars
  /\ UNCHANGED <<my_mod, opened, found_root, fs_n, g_last_fileattr_offset>>
  /\ \/ fs_pc' = "idle" /\ UNCHANGED heap
     \/ fs_pc' \in {"label_mounted", "uuid_mounted"}
          /\ heap' = Alloc(heap, DATA)

\* Lines 966-967: read_dstring gives the label or NULL; data is freed.
LabelReturn ==
  /\ fs_pc = "label_mounted"
  /\ UNCHANGED notFsVars
  /\ UNCHANGED <<my_mod, opened, found_root, fs_n, g_last_fileattr_offset>>
  /\ fs_pc' = "idle"
  /\ heap' \in {Returned(Free(heap, DATA)),
                Returned(Free(Handed(Alloc(heap, DSTRING), DSTRING), DATA))}

\* Lines 1040-1048: read_dstring, gen_uuid_from_volset, the frees.
UuidReturn ==
  /\ fs_pc = "uuid_mounted"
  /\ UNCHANGED notFsVars
  /\ UNCHANGED <<my_mod, opened, found_root, fs_n, g_last_fileattr_offset>>
  /\ fs_pc' = "idle"
  /\ LET v == Alloc(heap, DSTRING)
     IN  heap' \in {Returned(Free(heap, DATA)),
                    Returned(Free(Free(v, DSTRING), DATA)),
                    Returned(Free(Free(Handed(Alloc(v, UUID), UUID),
                                       DSTRING), DATA))}

FsNext ==
  \/ FsDir
  \/ DirResolve
  \/ DirIterateStart
  \/ DirIterateEntry
  \/ DirFreeFound
  \/ DirFail
  \/ FsOpen
  \/ OpenResolve
  \/ OpenFail
  \/ FsRead
  \/ ReadReturn
  \/ FsClose
  \/ FsLabelUuid
  \/ LabelReturn
  \/ UuidReturn

\* No call has been made yet; the calls follow one another.
InitFs ==
  MountInit /\ BlockIdle /\ DirIdle
    /\ LinkIdle /\ UuidIdle /\ FsIdle

SpecFs == InitFs /\ [][FsNext]_vars

(***************************************************************************)
(* Properties of the top-level calls.                                      *)
(***************************************************************************)
\* C13: between top-level calls the live allocations are exactly one node
\* and one volume per open file, and no allocation was freed twice or read
\* after it was freed.
C13_Allocations ==
  /\ ~heap.dfree
  /\ ~heap.uaf
  /\ fs_pc = "idle" =>
       heap.live = {FileNode(i) : i \in opened}
                     \cup {FileData(i) : i \in opened}

\* The same without the read after free.
C13_NoLeak ==
  /\ ~heap.dfree
  /\ fs_pc = "idle" =>
       heap.live = {FileNode(i) : i \in opened}
                     \cup {FileData(i) : i \in opened}

\* C18: grub_dl_ref calls minus grub_dl_unref calls is never negative and,
\* between calls, equals the number of files opened and not yet closed:
\* grub_udf_dir and a failed grub_udf_open leave it as it was, a
\* successful grub_udf_open adds one and grub_udf_close takes one away.
C18_ModuleRefs ==
  /\ my_mod >= 0
  /\ fs_pc = "idle" => my_mod = Cardinality(opened)
  /\ fs_pc \notin {"idle", "read", "label_mounted", "uuid_mounted"}
       => my_mod = Cardinality(opened) + 1

\* Two files are open between calls, and the count is 2.
C18_Witness ==
  /\ fs_pc = "idle"
  /\ opened = {1, 2}
  /\ my_mod = 2

=============================================================================
